---- MODULE Spec2Model ----
(***************************************************************************)
(* Model of src/ordinance_dashboard_deluxe.py: a script that loads a table *)
(* of ordinances, normalises it and computes six families of statistics.   *)
(*                                                                         *)
(* Strings are sequences of characters; a character is written as a short  *)
(* ASCII token (Hangul syllables by their romanisation) and Code gives its *)
(* Unicode code point, which is what Python's string comparison uses.      *)
(* Column names are romanised: gwangyeok = 광역 (province), gicho = 기초   *)
(* (municipality), choejong_bunya = 최종분야 (subject field),              *)
(* jibang_uihoe_gisu = 지방의회_기수 (council term).                       *)
(* Floating point numbers are modelled as exact fractions <<num, den>>;    *)
(* a fraction with den = 0 is the result of a division by zero (NaN).      *)
(***************************************************************************)
EXTENDS Integers, Sequences, FiniteSets, TLC

VARIABLES
  pc,              \* the statement the script is at
  source,          \* the spreadsheet at DATA_PATH
  cache,           \* the entries st.cache_data keeps for load_excel, by path
  columns,         \* df.columns
  df,              \* the rows of df
  error,           \* what st.error reported, or the exception raised
  produced,        \* the tabs whose tables have been computed
  gwangyeok_list, bunya_list, gisu_list,
  summary,         \* the figures of the data summary
  tab1, tab2, tab3, tab4, tab5, tab6

vars == <<pc, source, cache, columns, df, error, produced,
          gwangyeok_list, bunya_list, gisu_list, summary,
          tab1, tab2, tab3, tab4, tab5, tab6>>

-----------------------------------------------------------------------------
(* Bounds of the model *)

MaxRows == 3

MaxIngestRows == 2

MaxRankRows == 5

MaxCacheRows == 2

-----------------------------------------------------------------------------
(* Characters and strings *)

Code(ch) ==
  CASE ch = " " -> 32
    [] ch = "0" -> 48
    [] ch = "1" -> 49
    [] ch = "2" -> 50
    [] ch = "9" -> 57
    [] ch = "ga" -> 44032
    [] ch = "gang" -> 44053
    [] ch = "go" -> 44256
    [] ch = "gun" -> 44400
    [] ch = "gi" -> 44592
    [] ch = "do" -> 46020
    [] ch = "ryu" -> 47448
    [] ch = "byeol" -> 48324
    [] ch = "bok" -> 48373
    [] ch = "bun" -> 48516
    [] ch = "bul" -> 48520
    [] ch = "seong" -> 49457
    [] ch = "an" -> 50504
    [] ch = "won" -> 50896
    [] ch = "ja" -> 51088
    [] ch = "jeon" -> 51204
    [] ch = "ji" -> 51648
    [] ch = "chi" -> 52824
    [] ch = "ta" -> 53440
    [] ch = "teuk" -> 53945

IsDigit(ch) == ch \in {"0", "1", "2", "9"}

DigitVal(ch) == Code(ch) - 48

IsSpace(ch) == ch = " "

Min(a, b) == IF a <= b THEN a ELSE b

\* Python's str < str: the first differing code point decides, a proper prefix is smaller
StrLess(a, b) ==
  \E i \in 1..(Min(Len(a), Len(b)) + 1) :
     /\ \A j \in 1..(i - 1) : a[j] = b[j]
     /\ \/ i = Len(a) + 1 /\ i <= Len(b)
        \/ i <= Len(a) /\ i <= Len(b) /\ Code(a[i]) < Code(b[i])

\* tuple comparison of (province, municipality) keys
PairLess(p, q) == StrLess(p[1], q[1]) \/ (p[1] = q[1] /\ StrLess(p[2], q[2]))

\* str.strip(): leading and trailing whitespace removed
strip(s) ==
  LET keep == {i \in 1..Len(s) : ~IsSpace(s[i])}
  IN IF keep = {} THEN <<>>
     ELSE LET lo == CHOOSE i \in keep : \A j \in keep : i <= j
              hi == CHOOSE i \in keep : \A j \in keep : j <= i
          IN SubSeq(s, lo, hi)

\* sub in s
Contains(s, sub) ==
  \E i \in 1..(Len(s) - Len(sub) + 1) : SubSeq(s, i, i + Len(sub) - 1) = sub

RECURSIVE DecimalValue(_)
DecimalValue(ds) ==
  IF ds = <<>> THEN 0
  ELSE 10 * DecimalValue(SubSeq(ds, 1, Len(ds) - 1)) + DigitVal(ds[Len(ds)])

\* the text "분류불가" (unclassifiable)
UNCLASSIFIABLE == <<"bun", "ryu", "bul", "ga">>

NO_NUMBER == 999

\* re.search(r'\d+', x).group(): the leftmost, longest run of digits (<<>> if none)
FirstDigitRun(x) ==
  LET ds == {i \in 1..Len(x) : IsDigit(x[i])}
  IN IF ds = {} THEN <<>>
     ELSE LET lo == CHOOSE i \in ds : \A j \in ds : i <= j
              hi == CHOOSE i \in lo..Len(x) :
                       /\ \A j \in lo..i : IsDigit(x[j])
                       /\ (i = Len(x) \/ ~IsDigit(x[i + 1]))
          IN SubSeq(x, lo, hi)

\* a variant of extract_number that looks for digits before it looks for the marker
extract_number_digits_first(x) ==
  IF FirstDigitRun(x) # <<>> THEN DecimalValue(FirstDigitRun(x))
  ELSE IF Contains(x, UNCLASSIFIABLE) THEN 0
  ELSE NO_NUMBER

extract_number(x) ==
  IF Contains(x, UNCLASSIFIABLE) THEN 0
  ELSE IF FirstDigitRun(x) = <<>> THEN NO_NUMBER
  ELSE DecimalValue(FirstDigitRun(x))

-----------------------------------------------------------------------------
(* Tables *)

\* a missing cell (NaN / None)
NULL == <<"NaN">>

GWANGYEOK == "gwangyeok"

GICHO == "gicho"

CHOEJONG_BUNYA == "choejong_bunya"

JIBANG_UIHOE_GISU == "jibang_uihoe_gisu"

GISU_SORT == "_gisu_sort"

IS_GWANGYEOK_JACHE == "is_gwangyeok_jache"

GICHO_FULL == "gicho_full"

required_cols == <<GWANGYEOK, GICHO, CHOEJONG_BUNYA, JIBANG_UIHOE_GISU>>

Range(s) == {s[i] : i \in DOMAIN s}

\* sorted(...) of a set of strings
RECURSIVE SortedSeq(_)
SortedSeq(S) ==
  IF S = {} THEN <<>>
  ELSE LET m == CHOOSE x \in S : \A y \in S \ {x} : StrLess(x, y)
       IN <<m>> \o SortedSeq(S \ {m})

\* the group keys of groupby(['광역', '기초']), which sorts them
RECURSIVE SortedPairs(_)
SortedPairs(S) ==
  IF S = {} THEN <<>>
  ELSE LET m == CHOOSE x \in S : \A y \in S \ {x} : PairLess(x, y)
       IN <<m>> \o SortedPairs(S \ {m})

RECURSIVE SumOver(_, _)
SumOver(f, keys) ==
  IF keys = <<>> THEN 0 ELSE f[Head(keys)] + SumOver(f, Tail(keys))

\* df[df[col] == v]
WhereEq(t, col, v) == SelectSeq(t, LAMBDA r : r[col] = v)

\* a variant of pivot_table that marks the observed combinations instead of counting them
pivot_table_presence(t, index, cols) ==
  LET rk == {t[i][index] : i \in DOMAIN t}
      ck == {t[i][cols] : i \in DOMAIN t}
  IN [index   |-> SortedSeq(rk),
      columns |-> SortedSeq(ck),
      count   |-> [r \in rk |-> [c \in ck |->
                     IF \E i \in DOMAIN t : t[i][index] = r /\ t[i][cols] = c THEN 1 ELSE 0]]]

\* t.pivot_table(index=, columns=, aggfunc='size', fill_value=0): one row per
\* observed index value and one column per observed column value, both sorted
pivot_table(t, index, cols) ==
  LET rk == {t[i][index] : i \in DOMAIN t}
      ck == {t[i][cols] : i \in DOMAIN t}
  IN [index   |-> SortedSeq(rk),
      columns |-> SortedSeq(ck),
      count   |-> [r \in rk |-> [c \in ck |->
                     Cardinality({i \in DOMAIN t : t[i][index] = r /\ t[i][cols] = c})]]]

\* pivot.sum(axis=1)
sum_axis1(pivot) ==
  [r \in Range(pivot.index) |-> SumOver(pivot.count[r], pivot.columns)]

Abs(n) == IF n < 0 THEN -n ELSE n

RECURSIVE GCD(_, _)
GCD(a, b) == IF b = 0 THEN a ELSE GCD(b, a % b)

\* fractions are kept in lowest terms with a positive denominator; NaN is <<0, 0>>
Norm(n, d) ==
  IF d = 0 THEN <<0, 0>>
  ELSE LET g == GCD(Abs(n), Abs(d))
       IN IF d < 0 THEN <<(-n) \div g, (-d) \div g>> ELSE <<n \div g, d \div g>>

\* a / b in floating point: no exception, a zero divisor gives NaN (or inf)
Div(a, b) == Norm(a, b)

IsNaN(q) == q[2] = 0

FracEq(p, q) == ~IsNaN(p) /\ ~IsNaN(q) /\ p[1] * q[2] = q[1] * p[2]

FracLess(p, q) == ~IsNaN(p) /\ ~IsNaN(q) /\ p[1] * q[2] < q[1] * p[2]

FracSub(p, q) == Norm(p[1] * q[2] - q[1] * p[2], p[2] * q[2])

\* a variant of div_axis0_x100 that divides by the total of the whole table
div_by_grand_total_x100(pivot, row_sums) ==
  [r \in Range(pivot.index) |-> [c \in Range(pivot.columns) |->
     Div(pivot.count[r][c] * 100, SumOver(row_sums, pivot.index))]]

\* pivot.div(row_sums, axis=0) * 100
div_axis0_x100(pivot, row_sums) ==
  [r \in Range(pivot.index) |-> [c \in Range(pivot.columns) |->
     Div(pivot.count[r][c] * 100, row_sums[r])]]

\* pivot.mean(axis=0): the column means over the rows of the pivot
\* the mean taken after the average row has joined the rows
mean_axis0_counting_appended_row(pivot) ==
  [c \in Range(pivot.columns) |->
     Div(SumOver([r \in Range(pivot.index) |-> pivot.count[r][c]], pivot.index),
         Len(pivot.index) + 1)]

mean_axis0(pivot) ==
  [c \in Range(pivot.columns) |->
     Div(SumOver([r \in Range(pivot.index) |-> pivot.count[r][c]], pivot.index),
         Len(pivot.index))]

NAN == <<0, 0>>

FracAdd(p, q) == Norm(p[1] * q[2] + q[1] * p[2], p[2] * q[2])

FracMul(p, q) == Norm(p[1] * q[1], p[2] * q[2])

RECURSIVE FracSum(_, _)
FracSum(f, keys) ==
  IF keys = <<>> THEN <<0, 1>> ELSE FracAdd(f[Head(keys)], FracSum(f, Tail(keys)))

\* pivot_pct.diff(): NaN in the first row, otherwise the row minus the row above it
diff(pivot, pct) ==
  [r \in Range(pivot.index) |->
     LET i == CHOOSE k \in DOMAIN pivot.index : pivot.index[k] = r
     IN IF i = 1 THEN [c \in Range(pivot.columns) |-> NAN]
        ELSE [c \in Range(pivot.columns) |-> FracSub(pct[r][c], pct[pivot.index[i - 1]][c])]]

\* frame.mean(axis=0) of a frame of fractions
frac_mean_axis0(pivot, pct) ==
  [c \in Range(pivot.columns) |->
     LET total == FracSum([r \in Range(pivot.index) |-> pct[r][c]], pivot.index)
     IN Div(total[1], total[2] * Len(pivot.index))]

\* pandas' default delta degrees of freedom of std()
DDOF == 1

\* The square of frame.std(axis=1) for one row: the sum of the squared deviations
\* from the row mean, divided by (number of columns - ddof).  std is its square root.
row_variance(pivot, pct, r) ==
  LET n    == Len(pivot.columns)
      tot  == FracSum(pct[r], pivot.columns)
      mean == Div(tot[1], tot[2] * n)
      sq   == [c \in Range(pivot.columns) |->
                 FracMul(FracSub(pct[r][c], mean), FracSub(pct[r][c], mean))]
      ss   == FracSum(sq, pivot.columns)
  IN Div(ss[1], ss[2] * (n - DDOF))

\* row.idxmax(): the first column holding the row's maximum
idxmax(pivot, pct, r) ==
  LET k == CHOOSE i \in DOMAIN pivot.columns :
             /\ \A j \in DOMAIN pivot.columns : ~FracLess(pct[r][pivot.columns[i]], pct[r][pivot.columns[j]])
             /\ \A j \in 1..(i - 1) : FracLess(pct[r][pivot.columns[j]], pct[r][pivot.columns[i]])
  IN pivot.columns[k]

\* the orders in which sort_values (quicksort, not stable) may leave the rows of s:
\* every arrangement in which no row comes after a row it must precede; before
\* holds the pairs <<i, j>> of positions such that s[i] must precede s[j]
Arrangements(s, before) ==
  {[i \in DOMAIN s |-> s[p[i]]] : p \in
     {q \in Permutations(DOMAIN s) :
        \A i, j \in DOMAIN s : i < j => <<q[j], q[i]>> \notin before}}

-----------------------------------------------------------------------------
(* The spreadsheets the model reads *)

\* 강원도, 강원특별자치도 (the name of 강원도 since 2023), 고성군
GANGWON_DO == <<"gang", "won", "do">>

GANGWON_TEUKBYEOL_JACHIDO == <<"gang", "won", "teuk", "byeol", "ja", "chi", "do">>

GOSEONG_GUN == <<"go", "seong", "gun">>

\* 복지, 안전
BOKJI == <<"bok", "ji">>

ANJEON == <<"an", "jeon">>

\* 1기, 2기, " 2기", 10기, 0기, 1000기, 분류불가, 분류불가9, 기타
GI_1 == <<"1", "gi">>

GI_2 == <<"2", "gi">>

GI_2_PADDED == <<" ", "2", "gi">>

GI_10 == <<"1", "0", "gi">>

GI_0 == <<"0", "gi">>

GI_1000 == <<"1", "0", "0", "0", "gi">>

BULLYU == UNCLASSIFIABLE

BULLYU_9 == UNCLASSIFIABLE \o <<"9">>

GITA == <<"gi", "ta">>

Rec(p, m, f, t) ==
  (GWANGYEOK :> p) @@ (GICHO :> m) @@ (CHOEJONG_BUNYA :> f) @@ (JIBANG_UIHOE_GISU :> t)

Restrict(r, cols) == [c \in cols |-> r[c]]

TablesOf(records, n) == UNION {[1..k -> records] : k \in 0..n}

NoFile == [exists |-> FALSE, columns |-> {}, rows |-> <<>>]

File(cols, rows) == [exists |-> TRUE, columns |-> cols, rows |-> rows]

\* a province under its old name, with a municipality 고성군, and the same
\* municipality under the province's new name
MainRecords ==
  {Rec(e[1], e[2], f, t) :
     e \in {<<GANGWON_DO, GANGWON_DO>>, <<GANGWON_DO, GOSEONG_GUN>>,
            <<GANGWON_TEUKBYEOL_JACHIDO, GOSEONG_GUN>>},
     f \in {BOKJI, ANJEON},
     t \in {GI_1, GI_2}}

MainSources ==
  {NoFile} \cup {File(Range(required_cols), rows) : rows \in TablesOf(MainRecords, MaxRows)}

\* one province, many spellings of the council term
TermRecords ==
  {Rec(GANGWON_DO, GANGWON_DO, BOKJI, t) :
     t \in {GI_2_PADDED, GI_10, GI_0, GI_1000, BULLYU, BULLYU_9, GITA}}
  \cup {Rec(GANGWON_DO, GANGWON_DO, ANJEON, t) : t \in {GI_2_PADDED, GI_10, BULLYU}}

TermSources ==
  {NoFile} \cup {File(Range(required_cols), rows) : rows \in TablesOf(TermRecords, MaxRows)}

\* two provinces and a municipality of each, one field, one term
RankRecords ==
  {Rec(e[1], e[2], BOKJI, GI_1) :
     e \in {<<GANGWON_DO, GANGWON_DO>>, <<GANGWON_DO, GOSEONG_GUN>>,
            <<GANGWON_TEUKBYEOL_JACHIDO, GANGWON_TEUKBYEOL_JACHIDO>>,
            <<GANGWON_TEUKBYEOL_JACHIDO, GOSEONG_GUN>>}}

RankSources ==
  {NoFile} \cup {File(Range(required_cols), rows) : rows \in TablesOf(RankRecords, MaxRankRows)}

\* any schema, cells that may be empty
IngestRecords ==
  {Rec(p, m, f, t) :
     p \in {GANGWON_DO, NULL}, m \in {GANGWON_DO, GOSEONG_GUN, NULL},
     f \in {BOKJI, NULL}, t \in {GI_1, NULL}}

IngestSources ==
  {NoFile} \cup
  UNION {{File(cols, rows) : rows \in TablesOf({Restrict(r, cols) : r \in IngestRecords}, MaxIngestRows)} :
           cols \in SUBSET Range(required_cols)}

\* spreadsheets that normalizing changes: a padded term, a missing municipality
CacheRecords ==
  {Rec(GANGWON_DO, GOSEONG_GUN, BOKJI, GI_2_PADDED),
   Rec(GANGWON_DO, GANGWON_DO, ANJEON, GI_1),
   Rec(GANGWON_DO, NULL, BOKJI, GI_1)}

CacheSources ==
  {NoFile} \cup {File(Range(required_cols), rows) : rows \in TablesOf(CacheRecords, MaxCacheRows)}

NoError == [kind |-> "none", missing |-> <<>>]

NoSummary == [total |-> 0, gwangyeok_unique |-> 0, gicho_unique |-> 0, bunya_unique |-> 0]

InitFrom(sources) ==
  /\ source \in sources
  /\ cache = <<>>
  /\ pc = "load_excel"
  /\ columns = {}
  /\ df = <<>>
  /\ error = NoError
  /\ produced = {}
  /\ gwangyeok_list = <<>>
  /\ bunya_list = <<>>
  /\ gisu_list = <<>>
  /\ summary = NoSummary
  /\ tab1 = <<>>
  /\ tab2 = <<>>
  /\ tab3 = <<>>
  /\ tab4 = <<>>
  /\ tab5 = <<>>
  /\ tab6 = <<>>

Init == InitFrom(MainSources)

InitTerm == InitFrom(TermSources)

InitIngest == InitFrom(IngestSources)

InitRank == InitFrom(RankSources)

InitCache == InitFrom(CacheSources)

-----------------------------------------------------------------------------
(* The script, top to bottom *)

\* lines 119-125: stop when the file is absent, else read it
DATA_PATH == "data/korean_ordinance.xlsx"

\* load_excel without the memo: the file is read again on every call
load_excel_uncached(c, path, file) ==
  LET read == [columns |-> file.columns, rows |-> file.rows]
  IN [cache |-> (path :> read) @@ c, value |-> read]

\* lines 114-116: load_excel under st.cache_data. The first call for a path
\* reads the file and stores the table; a later call for the same path returns
\* a copy of the stored table and reads nothing.
load_excel(c, path, file) ==
  IF path \in DOMAIN c
    THEN [cache |-> c, value |-> c[path]]
    ELSE LET read == [columns |-> file.columns, rows |-> file.rows]
         IN [cache |-> (path :> read) @@ c, value |-> read]

LoadExcel ==
  /\ pc = "load_excel"
  /\ IF source.exists
       THEN /\ cache' = load_excel(cache, DATA_PATH, source).cache
            /\ df' = load_excel(cache, DATA_PATH, source).value.rows
            /\ columns' = load_excel(cache, DATA_PATH, source).value.columns
            /\ error' = error
            /\ pc' = "required_cols"
       ELSE /\ error' = [kind |-> "no_file", missing |-> <<>>]
            /\ pc' = "stopped"
            /\ UNCHANGED <<cache, df, columns>>
  /\ UNCHANGED <<source, produced, gwangyeok_list, bunya_list, gisu_list, summary,
                 tab1, tab2, tab3, tab4, tab5, tab6>>

\* a variant of missing_cols that reports only the first absent column
missing_cols_first_only(cols) ==
  SubSeq(SelectSeq(required_cols, LAMBDA c : c \notin cols), 1, 1)

\* [c for c in required_cols if c not in df.columns]
missing_cols(cols) == SelectSeq(required_cols, LAMBDA c : c \notin cols)

\* lines 127-133
CheckRequiredCols ==
  /\ pc = "required_cols"
  /\ IF missing_cols(columns) # <<>>
       THEN /\ error' = [kind |-> "missing_columns", missing |-> missing_cols(columns)]
            /\ pc' = "stopped"
       ELSE /\ error' = error
            /\ pc' = "normalize"
  /\ UNCHANGED <<source, cache, columns, df, produced, gwangyeok_list, bunya_list, gisu_list,
                 summary, tab1, tab2, tab3, tab4, tab5, tab6>>

\* a variant of dropna that looks at the first required column only
dropna_first_col_only(t) == SelectSeq(t, LAMBDA r : r[required_cols[1]] # NULL)

\* df.dropna(subset=required_cols)
dropna(t) == SelectSeq(t, LAMBDA r : \A i \in DOMAIN required_cols : r[required_cols[i]] # NULL)

\* lines 139-167, row by row: the trimmed term, its sort key, the two derived columns
derive(r) ==
  LET gisu == strip(r[JIBANG_UIHOE_GISU])
  IN [r EXCEPT ![JIBANG_UIHOE_GISU] = gisu]
       @@ (GISU_SORT :> extract_number(gisu))
       @@ (IS_GWANGYEOK_JACHE :> (r[GWANGYEOK] = r[GICHO]))
       @@ (GICHO_FULL :> r[GWANGYEOK] \o <<" ">> \o r[GICHO])

normalize(t) == [i \in DOMAIN dropna(t) |-> derive(dropna(t)[i])]

\* drop_duplicates() of the (term, sort key) pairs, in order of first appearance
gisu_unique(t) ==
  LET first == {i \in DOMAIN t : \A j \in 1..(i - 1) : t[j][JIBANG_UIHOE_GISU] # t[i][JIBANG_UIHOE_GISU]}
      Pick[k \in 0..Len(t)] ==
        IF k = 0 THEN <<>>
        ELSE IF k \in first THEN Append(Pick[k - 1], t[k][JIBANG_UIHOE_GISU]) ELSE Pick[k - 1]
  IN Pick[Len(t)]

\* sort_values("_기수_정렬용"): ascending sort key
gisu_orders(t) ==
  LET u == gisu_unique(t)
  IN Arrangements(u, {ij \in (DOMAIN u) \X (DOMAIN u) :
                        extract_number(u[ij[1]]) < extract_number(u[ij[2]])})

\* lines 135-167
Normalize ==
  /\ pc = "normalize"
  /\ df' = normalize(df)
  /\ columns' = columns \cup {GISU_SORT, IS_GWANGYEOK_JACHE, GICHO_FULL}
  /\ gwangyeok_list' = SortedSeq({df'[i][GWANGYEOK] : i \in DOMAIN df'})
  /\ bunya_list' = SortedSeq({df'[i][CHOEJONG_BUNYA] : i \in DOMAIN df'})
  /\ gisu_list' \in gisu_orders(df')
  /\ pc' = "summary"
  /\ UNCHANGED <<source, cache, error, produced, summary, tab1, tab2, tab3, tab4, tab5, tab6>>

\* a variant of gicho_rows that keeps the provinces' own rows
gicho_rows_unfiltered(t) == t

\* df[~df["is_광역자체"]] and df[df["is_광역자체"]]
gicho_rows(t) == SelectSeq(t, LAMBDA r : ~r[IS_GWANGYEOK_JACHE])

gwangyeok_jache_rows(t) == SelectSeq(t, LAMBDA r : r[IS_GWANGYEOK_JACHE])

\* lines 175-179; 기수_list[0] raises IndexError when no row is left
Summary ==
  /\ pc = "summary"
  /\ IF gisu_list = <<>>
       THEN /\ error' = [kind |-> "IndexError", missing |-> <<>>]
            /\ pc' = "crashed"
            /\ summary' = summary
       ELSE /\ summary' = [total |-> Len(df),
                           gwangyeok_unique |-> Len(gwangyeok_list),
                           gicho_unique |-> Cardinality({<<r[GWANGYEOK], r[GICHO]>> : r \in Range(gicho_rows(df))}),
                           bunya_unique |-> Len(bunya_list)]
            /\ error' = error
            /\ pc' = "tab1"
  /\ UNCHANGED <<source, cache, columns, df, produced, gwangyeok_list, bunya_list, gisu_list,
                 tab1, tab2, tab3, tab4, tab5, tab6>>

\* the cell text "N건 (x%)" of the count tables: the share, or 0 when the row total is 0
display_pct(pivot, row_sums) ==
  [r \in Range(pivot.index) |-> [c \in Range(pivot.columns) |->
     IF row_sums[r] > 0 THEN Div(pivot.count[r][c] * 100, row_sums[r]) ELSE <<0, 1>>]]

\* row_sums.mean()
mean_of(row_sums, index) == Div(SumOver(row_sums, index), Len(index))

\* lines 246-291 for one term: provinces x fields, the row of averages, the heat map
gisu_table(t, gisu) ==
  LET gisu_df  == WhereEq(t, JIBANG_UIHOE_GISU, gisu)
      pivot    == pivot_table(gisu_df, GWANGYEOK, CHOEJONG_BUNYA)
      row_sums == sum_axis1(pivot)
      avg      == mean_axis0(pivot)
      avg_sum  == FracSum(avg, pivot.columns)
  IN [pivot      |-> pivot,
      row_sums   |-> row_sums,
      display    |-> display_pct(pivot, row_sums),
      avg_label  |-> Len(pivot.index),
      avg_total  |-> mean_of(row_sums, pivot.index),
      avg_counts |-> avg,
      avg_pct    |-> [c \in Range(pivot.columns) |->
                        IF avg_sum[1] > 0
                          THEN Div(avg[c][1] * avg_sum[2] * 100, avg[c][2] * avg_sum[1])
                          ELSE <<0, 1>>],
      pivot_pct  |-> div_axis0_x100(pivot, row_sums)]

\* lines 240-310
Tab1 ==
  /\ pc = "tab1"
  /\ tab1' = [gisu \in Range(gisu_list) |-> gisu_table(df, gisu)]
  /\ produced' = produced \cup {"tab1"}
  /\ pc' = "tab2"
  /\ UNCHANGED <<source, cache, columns, df, error, gwangyeok_list, bunya_list, gisu_list,
                 summary, tab2, tab3, tab4, tab5, tab6>>

\* df[df["광역"] == 광역]
gwangyeok_df(t, gwangyeok) == WhereEq(t, GWANGYEOK, gwangyeok)

\* lines 321-353 for one province: terms x fields, shares, growth over the row above
gwangyeok_table(t, gwangyeok) ==
  LET pivot     == pivot_table(gwangyeok_df(t, gwangyeok), JIBANG_UIHOE_GISU, CHOEJONG_BUNYA)
      row_sums  == sum_axis1(pivot)
      pivot_pct == div_axis0_x100(pivot, row_sums)
  IN [pivot        |-> pivot,
      row_sums     |-> row_sums,
      pivot_pct    |-> pivot_pct,
      pivot_growth |-> diff(pivot, pivot_pct)]

\* lines 315-377
Tab2 ==
  /\ pc = "tab2"
  /\ tab2' = [gwangyeok \in Range(gwangyeok_list) |-> gwangyeok_table(df, gwangyeok)]
  /\ produced' = produced \cup {"tab2"}
  /\ pc' = "tab3"
  /\ UNCHANGED <<source, cache, columns, df, error, gwangyeok_list, bunya_list, gisu_list,
                 summary, tab1, tab3, tab4, tab5, tab6>>

\* lines 387-396: the national table of municipalities
jeonguk_gicho(t) ==
  LET pivot == pivot_table(gicho_rows(t), GICHO, CHOEJONG_BUNYA)
      biyul == div_axis0_x100(pivot, sum_axis1(pivot))
  IN [pivot        |-> pivot,
      biyul        |-> biyul,
      pyeonggyun_biyul   |-> frac_mean_axis0(pivot, biyul),
      pyeonggyun_geonsu  |-> mean_axis0(pivot),
      pyeonggyun_hapgye  |-> mean_of(sum_axis1(pivot), pivot.index)]

\* lines 400-444 for one province: municipalities x fields and the heat map shares
gicho_table(t, gwangyeok) ==
  LET pivot    == pivot_table(gwangyeok_df(t, gwangyeok), GICHO, CHOEJONG_BUNYA)
      row_sums == sum_axis1(pivot)
  IN [pivot       |-> pivot,
      row_sums    |-> row_sums,
      display     |-> display_pct(pivot, row_sums),
      heatmap_pct |-> div_axis0_x100(pivot, row_sums)]

\* lines 429-437: the row appended under every province's table; one cell per
\* field of bunya_list, taken from the national means, zero where the national
\* table has no such column
pyeonggyun_row(jeonguk, bunya) ==
  [c \in Range(bunya) |->
     IF c \in Range(jeonguk.pivot.columns) THEN jeonguk.pyeonggyun_geonsu[c] ELSE <<0, 1>>]

\* lines 382-464
Tab3 ==
  /\ pc = "tab3"
  /\ tab3' = [jeonguk        |-> jeonguk_gicho(df),
              by_gwangyeok   |-> [gwangyeok \in Range(gwangyeok_list) |-> gicho_table(df, gwangyeok)],
              pyeonggyun_row |-> pyeonggyun_row(jeonguk_gicho(df), bunya_list)]
  /\ produced' = produced \cup {"tab3"}
  /\ pc' = "tab4"
  /\ UNCHANGED <<source, cache, columns, df, error, gwangyeok_list, bunya_list, gisu_list,
                 summary, tab1, tab2, tab4, tab5, tab6>>

\* lines 474-482: the national terms x fields table
jeonguk_table(t) ==
  LET pivot    == pivot_table(t, JIBANG_UIHOE_GISU, CHOEJONG_BUNYA)
      row_sums == sum_axis1(pivot)
  IN [pivot    |-> pivot,
      row_sums |-> row_sums,
      biyul    |-> div_axis0_x100(pivot, row_sums)]

\* lines 469-520
Tab4 ==
  /\ pc = "tab4"
  /\ tab4' = jeonguk_table(df)
  /\ produced' = produced \cup {"tab4"}
  /\ pc' = "tab5"
  /\ UNCHANGED <<source, cache, columns, df, error, gwangyeok_list, bunya_list, gisu_list,
                 summary, tab1, tab2, tab3, tab5, tab6>>

\* sort_values(ascending=False) of the concentrations: larger first, NaN last
jipjungdo_before(a, b) ==
  IF IsNaN(a.jipjungdo_sq) THEN FALSE
  ELSE IF IsNaN(b.jipjungdo_sq) THEN TRUE
  ELSE FracLess(b.jipjungdo_sq, a.jipjungdo_sq)

\* lines 536-560: municipalities (by full name) x fields, shares, their dispersion
jipjungdo_rows(t) ==
  LET pivot == pivot_table(gicho_rows(t), GICHO_FULL, CHOEJONG_BUNYA)
      sums  == sum_axis1(pivot)
      biyul == div_axis0_x100(pivot, sums)
  IN [pivot |-> pivot,
      biyul |-> biyul,
      rows  |-> [i \in DOMAIN pivot.index |->
                   [gicho         |-> pivot.index[i],
                    jipjungdo_sq  |-> row_variance(pivot, biyul, pivot.index[i]),
                    jipjung_bunya |-> idxmax(pivot, biyul, pivot.index[i]),
                    chong_joryesu |-> sums[pivot.index[i]]]]]

sorted_by_jipjungdo(rows) ==
  Arrangements(rows, {ij \in (DOMAIN rows) \X (DOMAIN rows) :
                        jipjungdo_before(rows[ij[1]], rows[ij[2]])})

\* lines 525-598
Tab5 ==
  /\ pc = "tab5"
  /\ \E order \in sorted_by_jipjungdo(jipjungdo_rows(df).rows) :
       tab5' = [pivot |-> jipjungdo_rows(df).pivot,
                biyul |-> jipjungdo_rows(df).biyul,
                jipjungdo_df |-> order]
  /\ produced' = produced \cup {"tab5"}
  /\ pc' = "tab6"
  /\ UNCHANGED <<source, cache, columns, df, error, gwangyeok_list, bunya_list, gisu_list,
                 summary, tab1, tab2, tab3, tab4, tab6>>

\* a variant of joryesu_before that sorts ascending
joryesu_before_ascending(a, b) == a.chong_joryesu < b.chong_joryesu

\* sort_values('총조례수', ascending=False)
joryesu_before(a, b) == a.chong_joryesu > b.chong_joryesu

\* groupby(['광역', '기초']).size().reset_index(name='총조례수')
size_by_gwangyeok_gicho(t) ==
  LET keys == SortedPairs({<<t[i][GWANGYEOK], t[i][GICHO]>> : i \in DOMAIN t})
  IN [k \in DOMAIN keys |->
        [gwangyeok     |-> keys[k][1],
         gicho         |-> keys[k][2],
         chong_joryesu |-> Cardinality({i \in DOMAIN t :
                              t[i][GWANGYEOK] = keys[k][1] /\ t[i][GICHO] = keys[k][2]})]]

\* groupby('광역').size().reset_index(name='총조례수')
size_by_gwangyeok(t) ==
  LET keys == SortedSeq({t[i][GWANGYEOK] : i \in DOMAIN t})
  IN [k \in DOMAIN keys |->
        [gwangyeok     |-> keys[k],
         chong_joryesu |-> Cardinality({i \in DOMAIN t : t[i][GWANGYEOK] = keys[k]})]]

\* the 구분 column: '광역' when the two names are equal, else '기초'
gubun(x) == IF x.gwangyeok = x.gicho THEN "gwangyeok" ELSE "gicho"

\* the 순위 column: range(1, len + 1) over the sorted rows
with_sunwi(order) == [i \in DOMAIN order |-> [sunwi |-> i, row |-> order[i]]]

\* the rows handed to each of the three sorts
gicho_joryesu(t) == size_by_gwangyeok_gicho(gicho_rows(t))

gwangyeok_joryesu(t) == size_by_gwangyeok(gwangyeok_jache_rows(t))

jeonche_joryesu(t) ==
  [k \in DOMAIN size_by_gwangyeok_gicho(t) |->
     [gubun         |-> gubun(size_by_gwangyeok_gicho(t)[k]),
      gwangyeok     |-> size_by_gwangyeok_gicho(t)[k].gwangyeok,
      gicho         |-> size_by_gwangyeok_gicho(t)[k].gicho,
      chong_joryesu |-> size_by_gwangyeok_gicho(t)[k].chong_joryesu]]

sorted_by_joryesu(rows) ==
  Arrangements(rows, {ij \in (DOMAIN rows) \X (DOMAIN rows) :
                        joryesu_before(rows[ij[1]], rows[ij[2]])})

\* lines 603-624
Tab6 ==
  /\ pc = "tab6"
  /\ \E g \in sorted_by_joryesu(gicho_joryesu(df)),
        w \in sorted_by_joryesu(gwangyeok_joryesu(df)),
        j \in sorted_by_joryesu(jeonche_joryesu(df)) :
       tab6' = [gicho     |-> with_sunwi(g),
                gwangyeok |-> with_sunwi(w),
                jeonche   |-> with_sunwi(j)]
  /\ produced' = produced \cup {"tab6"}
  /\ pc' = "done"
  /\ UNCHANGED <<source, cache, columns, df, error, gwangyeok_list, bunya_list, gisu_list,
                 summary, tab1, tab2, tab3, tab4, tab5>>

Next ==
  \/ LoadExcel
  \/ CheckRequiredCols
  \/ Normalize
  \/ Summary
  \/ Tab1
  \/ Tab2
  \/ Tab3
  \/ Tab4
  \/ Tab5
  \/ Tab6

\* One run of the script over each spreadsheet of a family: Spec over two province
\* names, a municipality, two fields and two terms; SpecTerm over many spellings of
\* the term; SpecIngest over every schema and empty cells; SpecRank over four
\* jurisdictions and longer tables.
Spec == Init /\ [][Next]_vars

SpecTerm == InitTerm /\ [][Next]_vars

SpecIngest == InitIngest /\ [][Next]_vars

SpecRank == InitRank /\ [][Next]_vars

\* Streamlit runs the script again from its first line: every variable of the
\* script starts anew, the entries of st.cache_data stay
Rerun ==
  /\ pc \in {"done", "stopped", "crashed"}
  /\ pc' = "load_excel"
  /\ columns' = {}
  /\ df' = <<>>
  /\ error' = NoError
  /\ produced' = {}
  /\ gwangyeok_list' = <<>>
  /\ bunya_list' = <<>>
  /\ gisu_list' = <<>>
  /\ summary' = NoSummary
  /\ tab1' = <<>>
  /\ tab2' = <<>>
  /\ tab3' = <<>>
  /\ tab4' = <<>>
  /\ tab5' = <<>>
  /\ tab6' = <<>>
  /\ UNCHANGED <<source, cache>>

\* between two runs the spreadsheet at DATA_PATH is replaced or removed
ReplaceFile ==
  /\ pc \in {"done", "stopped", "crashed"}
  /\ \E file \in CacheSources : file # source /\ source' = file
  /\ UNCHANGED <<pc, cache, columns, df, error, produced, gwangyeok_list, bunya_list,
                 gisu_list, summary, tab1, tab2, tab3, tab4, tab5, tab6>>

NextCache ==
  \/ Next
  \/ Rerun
  \/ ReplaceFile

\* Any number of runs of the script, the spreadsheet changing between them
SpecCache == InitCache /\ [][NextCache]_vars

-----------------------------------------------------------------------------
(* Properties *)

Ran(tab) == tab \in produced

\* the positions the script can be at once the table has been normalised
AfterNormalize == {"summary", "crashed", "tab1", "tab2", "tab3", "tab4", "tab5", "tab6", "done"}

AbsentRequired == {c \in Range(required_cols) : c \notin source.columns}

\* C1: when required columns are absent from the schema the script stops with an
\* error naming exactly the absent required columns (each once, in the order of
\* required_cols) and computes no summary, cross-tab, metric or ranking.
C1_MissingColumnsStop ==
  (source.exists /\ AbsentRequired # {}) =>
     /\ pc \in {"load_excel", "required_cols", "stopped"}
     /\ produced = {}
     /\ summary = NoSummary
     /\ gisu_list = <<>>
     /\ pc = "stopped" =>
          /\ error.kind = "missing_columns"
          /\ Range(error.missing) = AbsentRequired
          /\ Len(error.missing) = Cardinality(AbsentRequired)

C1_Witness ==
  /\ pc = "stopped"
  /\ error.kind = "missing_columns"
  /\ Len(error.missing) = 2
  /\ Len(source.rows) > 0

HasNullRow ==
  /\ source.exists
  /\ AbsentRequired = {}
  /\ \E i \in DOMAIN source.rows : \E c \in Range(required_cols) : source.rows[i][c] = NULL

\* the rows of the spreadsheet with a value in every required column, in order
CompleteRows ==
  LET Keep[k \in 0..Len(source.rows)] ==
        IF k = 0 THEN <<>>
        ELSE IF \A c \in Range(required_cols) : source.rows[k][c] # NULL
               THEN Append(Keep[k - 1], source.rows[k])
               ELSE Keep[k - 1]
  IN Keep[Len(source.rows)]

\* C2 as stated: a record with an empty required field makes the whole ingest
\* fail, so that no normalised table is ever produced from such a spreadsheet.
C2_NullRowFailsIngest == HasNullRow => pc \notin AfterNormalize

\* C2 as amended: records with an empty required field are dropped and the
\* normalised table is made of exactly the remaining records, in their order.
C2_NullRowsDropped ==
  (source.exists /\ pc \in AfterNormalize) =>
     /\ Len(df) = Len(CompleteRows)
     /\ \A i \in DOMAIN df :
          /\ \A c \in {GWANGYEOK, GICHO, CHOEJONG_BUNYA} : df[i][c] = CompleteRows[i][c]
          /\ df[i][JIBANG_UIHOE_GISU] = strip(CompleteRows[i][JIBANG_UIHOE_GISU])

C2_Witness ==
  /\ HasNullRow
  /\ pc = "tab1"
  /\ Len(df) = 1
  /\ Len(source.rows) = 2

\* the number of rows of t with value v in column col
CountWhere(t, col, v) == Cardinality({i \in DOMAIN t : t[i][col] = v})

RowTotal(pivot, r) == SumOver(pivot.count[r], pivot.columns)

CellSum(pivot) == SumOver([r \in Range(pivot.index) |-> RowTotal(pivot, r)], pivot.index)

\* the cells, and the row totals, of a cross-tab add up to n
AddsUpTo(pivot, row_sums, n) ==
  /\ CellSum(pivot) = n
  /\ SumOver(row_sums, pivot.index) = n

\* C3: in each cross-tab (province x field per term, term x field per province,
\* municipality x field per province, national term x field) the cells, and the
\* row totals, add up to the number of records that passed the cross-tab's filter.
C3_CrossTabsComplete ==
  /\ Ran("tab1") => \A g \in DOMAIN tab1 :
        AddsUpTo(tab1[g].pivot, tab1[g].row_sums, CountWhere(df, JIBANG_UIHOE_GISU, g))
  /\ Ran("tab2") => \A p \in DOMAIN tab2 :
        AddsUpTo(tab2[p].pivot, tab2[p].row_sums, CountWhere(df, GWANGYEOK, p))
  /\ Ran("tab3") => \A p \in DOMAIN tab3.by_gwangyeok :
        AddsUpTo(tab3.by_gwangyeok[p].pivot, tab3.by_gwangyeok[p].row_sums,
                 CountWhere(df, GWANGYEOK, p))
  /\ Ran("tab4") => AddsUpTo(tab4.pivot, tab4.row_sums, Len(df))

C3_Witness ==
  /\ pc = "done"
  /\ Len(df) = 3
  /\ Len(tab4.pivot.index) = 2
  /\ Len(tab4.pivot.columns) = 2
  /\ \E p \in DOMAIN tab2 : \E r \in Range(tab2[p].pivot.index) :
        \E c \in Range(tab2[p].pivot.columns) : tab2[p].pivot.count[r][c] = 2

\* every row of the cross-tab has a positive total, and pct holds count * 100 / total,
\* so that the shares of a row add up to 100
SharesOf(pivot, pct) ==
  \A r \in Range(pivot.index) :
     /\ RowTotal(pivot, r) > 0
     /\ \A c \in Range(pivot.columns) :
          /\ ~IsNaN(pct[r][c])
          /\ pct[r][c][1] * RowTotal(pivot, r) = pivot.count[r][c] * 100 * pct[r][c][2]
     /\ FracSum(pct[r], pivot.columns) = <<100, 1>>

\* C4: every percentage of every cross-tab is count * 100 / row total, the
\* percentages of a row add up to 100, and no row has a zero total, so that no
\* percentage is computed by a division by zero.
C4_Percentages ==
  /\ Ran("tab1") => \A g \in DOMAIN tab1 :
        /\ SharesOf(tab1[g].pivot, tab1[g].display)
        /\ SharesOf(tab1[g].pivot, tab1[g].pivot_pct)
        /\ \A c \in Range(tab1[g].pivot.columns) : ~IsNaN(tab1[g].avg_pct[c])
        /\ FracSum(tab1[g].avg_pct, tab1[g].pivot.columns) = <<100, 1>>
  /\ Ran("tab2") => \A p \in DOMAIN tab2 : SharesOf(tab2[p].pivot, tab2[p].pivot_pct)
  /\ Ran("tab3") =>
        /\ SharesOf(tab3.jeonguk.pivot, tab3.jeonguk.biyul)
        /\ \A p \in DOMAIN tab3.by_gwangyeok :
             /\ SharesOf(tab3.by_gwangyeok[p].pivot, tab3.by_gwangyeok[p].display)
             /\ SharesOf(tab3.by_gwangyeok[p].pivot, tab3.by_gwangyeok[p].heatmap_pct)
  /\ Ran("tab4") => SharesOf(tab4.pivot, tab4.biyul)
  /\ Ran("tab5") => SharesOf(tab5.pivot, tab5.biyul)

C4_Witness ==
  /\ pc = "done"
  /\ \E r \in Range(tab4.pivot.index) : \E c \in Range(tab4.pivot.columns) :
        tab4.row_sums[r] = 3 /\ tab4.pivot.count[r][c] = 1 /\ tab4.biyul[r][c] = <<100, 3>>
  /\ \E p \in DOMAIN tab2 : \E r \in Range(tab2[p].pivot.index) :
        \E c \in Range(tab2[p].pivot.columns) : tab2[p].pivot_pct[r][c] = <<50, 1>>

\* C5: in the term x field table of a province the rows are in ascending
\* termOrdinal, growth is absent in the first row, and in every later row it is
\* the row's percentage minus the percentage of the row before it.
C5_GrowthInOrdinalOrder ==
  Ran("tab2") => \A p \in DOMAIN tab2 :
     LET idx == tab2[p].pivot.index
     IN \A i \in DOMAIN idx : \A c \in Range(tab2[p].pivot.columns) :
          IF i = 1 THEN IsNaN(tab2[p].pivot_growth[idx[i]][c])
          ELSE /\ extract_number(idx[i - 1]) <= extract_number(idx[i])
               /\ tab2[p].pivot_growth[idx[i]][c]
                    = FracSub(tab2[p].pivot_pct[idx[i]][c], tab2[p].pivot_pct[idx[i - 1]][c])

\* the sum of the squared deviations of a row's percentages from their mean
SumSqDev(pivot, pct, r) ==
  LET n == Len(pivot.columns)
      total == FracSum(pct[r], pivot.columns)
      mean == Norm(total[1], total[2] * n)
  IN FracSum([c \in Range(pivot.columns) |->
                FracMul(FracSub(pct[r][c], mean), FracSub(pct[r][c], mean))],
             pivot.columns)

\* C6: the concentration of every municipality is the population standard
\* deviation of its percentages: its square is the sum of the squared deviations
\* from the row mean divided by the number of columns N.
C6_PopulationStd ==
  Ran("tab5") => \A i \in DOMAIN tab5.jipjungdo_df :
     LET row == tab5.jipjungdo_df[i]
         ss  == SumSqDev(tab5.pivot, tab5.biyul, row.gicho)
     IN FracEq(row.jipjungdo_sq, Norm(ss[1], ss[2] * Len(tab5.pivot.columns)))

\* the rows of a ranking carry the ranks 1..n in order and their counts never increase
RankedDescending(ranking, n) ==
  /\ Len(ranking) = n
  /\ \A i \in DOMAIN ranking : ranking[i].sunwi = i
  /\ \A i, j \in DOMAIN ranking : i < j => ranking[i].row.chong_joryesu >= ranking[j].row.chong_joryesu

\* the (province, municipality) pairs of df: all, the municipalities, the provinces
AllEntities == {<<df[i][GWANGYEOK], df[i][GICHO]>> : i \in DOMAIN df}

SubUnits == {e \in AllEntities : e[1] # e[2]}

TopLevel == {e \in AllEntities : e[1] = e[2]}

\* C7: each of the three rankings carries the ranks 1..N in sequence order, N being
\* the number of distinct entities in its scope, and is in descending total count.
C7_Rankings ==
  Ran("tab6") =>
     /\ RankedDescending(tab6.gicho, Cardinality(SubUnits))
     /\ RankedDescending(tab6.gwangyeok, Cardinality(TopLevel))
     /\ RankedDescending(tab6.jeonche, Cardinality(AllEntities))

C7_Witness ==
  /\ pc = "done"
  /\ Len(tab6.jeonche) = 3
  /\ Len(tab6.gwangyeok) = 2
  /\ tab6.jeonche[1].row.chong_joryesu = 3
  /\ tab6.jeonche[3].row.chong_joryesu = 1
  /\ tab6.gwangyeok[1].row.chong_joryesu > tab6.gwangyeok[2].row.chong_joryesu

\* the number of records of an entity
RecordsOf(e) == Cardinality({i \in DOMAIN df : df[i][GWANGYEOK] = e[1] /\ df[i][GICHO] = e[2]})

\* C8: the municipality ranking holds the entities with municipality # province,
\* the province ranking those with municipality = province, the combined ranking
\* every entity once, tagged by that test; every entry counts the entity's records,
\* so the combined ranking is the disjoint union of the other two.
C8_RankingScopes ==
  Ran("tab6") =>
     /\ {<<x.row.gwangyeok, x.row.gicho>> : x \in Range(tab6.gicho)}
          = SubUnits
     /\ {<<x.row.gwangyeok, x.row.gwangyeok>> : x \in Range(tab6.gwangyeok)}
          = TopLevel
     /\ {<<x.row.gwangyeok, x.row.gicho>> : x \in Range(tab6.jeonche)}
          = AllEntities
     /\ Len(tab6.jeonche) = Cardinality(AllEntities)
     /\ Len(tab6.jeonche) = Len(tab6.gicho) + Len(tab6.gwangyeok)
     /\ \A x \in Range(tab6.gicho) :
          x.row.chong_joryesu = RecordsOf(<<x.row.gwangyeok, x.row.gicho>>)
     /\ \A x \in Range(tab6.gwangyeok) :
          x.row.chong_joryesu = RecordsOf(<<x.row.gwangyeok, x.row.gwangyeok>>)
     /\ \A x \in Range(tab6.jeonche) :
          /\ x.row.chong_joryesu = RecordsOf(<<x.row.gwangyeok, x.row.gicho>>)
          /\ (x.row.gubun = "gwangyeok") = (x.row.gwangyeok = x.row.gicho)
          /\ IF x.row.gwangyeok = x.row.gicho
               THEN \E y \in Range(tab6.gwangyeok) :
                       y.row.gwangyeok = x.row.gwangyeok /\ y.row.chong_joryesu = x.row.chong_joryesu
               ELSE \E y \in Range(tab6.gicho) :
                       /\ y.row.gwangyeok = x.row.gwangyeok /\ y.row.gicho = x.row.gicho
                       /\ y.row.chong_joryesu = x.row.chong_joryesu

C8_Witness ==
  /\ pc = "done"
  /\ Len(tab6.gicho) = 2
  /\ Len(tab6.gwangyeok) = 2
  /\ Len(tab6.jeonche) = 4
  /\ \E x \in Range(tab6.jeonche) : x.row.gubun = "gwangyeok" /\ x.row.chong_joryesu = 2

RECURSIVE Pow10(_)
Pow10(k) == IF k = 0 THEN 1 ELSE 10 * Pow10(k - 1)

HasMarker(x) ==
  \E i \in 1..(Len(x) - 3) : <<x[i], x[i + 1], x[i + 2], x[i + 3]>> = <<"bun", "ryu", "bul", "ga">>

HasDigit(x) == \E i \in DOMAIN x : IsDigit(x[i])

\* the number written by the digits of x from the first digit up to the next non-digit
FirstNumber(x) ==
  LET lo == CHOOSE i \in DOMAIN x : IsDigit(x[i]) /\ \A j \in 1..(i - 1) : ~IsDigit(x[j])
      hi == CHOOSE i \in lo..Len(x) :
              (\A j \in lo..i : IsDigit(x[j])) /\ (i < Len(x) => ~IsDigit(x[i + 1]))
      Sum[k \in (lo - 1)..hi] ==
        IF k = lo - 1 THEN 0 ELSE Sum[k - 1] + DigitVal(x[k]) * Pow10(hi - k)
  IN Sum[hi]

Numbered(x) == ~HasMarker(x) /\ HasDigit(x)

Unparsable(x) == ~HasMarker(x) /\ ~HasDigit(x)

\* the sort key of every row is 0 for a label with the marker, else the number of
\* its first run of digits, else 999; gisu_list holds each label of df once
OrdinalsAsSpecified ==
  /\ \A i \in DOMAIN df :
       df[i][GISU_SORT] =
         IF HasMarker(df[i][JIBANG_UIHOE_GISU]) THEN 0
         ELSE IF HasDigit(df[i][JIBANG_UIHOE_GISU]) THEN FirstNumber(df[i][JIBANG_UIHOE_GISU])
         ELSE 999
  /\ Range(gisu_list) = {df[i][JIBANG_UIHOE_GISU] : i \in DOMAIN df}
  /\ Len(gisu_list) = Cardinality(Range(gisu_list))

\* C9 as stated: the sort keys are as specified, and gisu_list has every label
\* with the marker before all numbered labels and every label without digits
\* after all numbered labels.
C9_TermOrdinal ==
  pc \in AfterNormalize =>
     /\ OrdinalsAsSpecified
     /\ \A i, j \in DOMAIN gisu_list :
          /\ (HasMarker(gisu_list[i]) /\ Numbered(gisu_list[j])) => i < j
          /\ (Unparsable(gisu_list[i]) /\ Numbered(gisu_list[j])) => j < i

\* C9 as amended: the sort keys are as specified, and gisu_list has every label
\* with the marker before the numbered labels whose number is at least 1 and every
\* label without digits after the numbered labels whose number is below 999.
C9_TermOrdinalAmended ==
  pc \in AfterNormalize =>
     /\ OrdinalsAsSpecified
     /\ \A i, j \in DOMAIN gisu_list :
          /\ (HasMarker(gisu_list[i]) /\ Numbered(gisu_list[j]) /\ FirstNumber(gisu_list[j]) >= 1)
                => i < j
          /\ (Unparsable(gisu_list[i]) /\ Numbered(gisu_list[j]) /\ FirstNumber(gisu_list[j]) < 999)
                => j < i

C9_Witness ==
  /\ pc = "tab1"
  /\ gisu_list = <<UNCLASSIFIABLE \o <<"9">>, <<"1", "0", "gi">>, <<"gi", "ta">>>>
  /\ \E i \in DOMAIN df : df[i][JIBANG_UIHOE_GISU] = <<"1", "0", "gi">> /\ df[i][GISU_SORT] = 10
  /\ \E i \in DOMAIN df : df[i][JIBANG_UIHOE_GISU] = <<"gi", "ta">> /\ df[i][GISU_SORT] = 999
  /\ \E i \in DOMAIN df : HasMarker(df[i][JIBANG_UIHOE_GISU]) /\ df[i][GISU_SORT] = 0

\* the registered historical names of a province: 강원특별자치도 was 강원도
aliases(canonical) == IF canonical = GANGWON_TEUKBYEOL_JACHIDO THEN {GANGWON_DO} ELSE {}

resolveNames(canonical) == {canonical} \cup aliases(canonical)

\* C10: the records selected for a province are those tagged with its name or with
\* one of its registered aliases, and with its name alone when it has no alias.
C10_AliasInclusive ==
  /\ Ran("tab2") => \A p \in DOMAIN tab2 :
        SumOver(tab2[p].row_sums, tab2[p].pivot.index)
          = Cardinality({i \in DOMAIN df : df[i][GWANGYEOK] \in resolveNames(p)})
  /\ Ran("tab3") => \A p \in DOMAIN tab3.by_gwangyeok :
        SumOver(tab3.by_gwangyeok[p].row_sums, tab3.by_gwangyeok[p].pivot.index)
          = Cardinality({i \in DOMAIN df : df[i][GWANGYEOK] \in resolveNames(p)})

(***************************************************************************)
(* The appended average rows                                               *)
(***************************************************************************)
Keys(t, col) == {t[i][col] : i \in DOMAIN t}

\* the column mean of the counts over the rows that grouping t by index gives
RealRowMean(t, index, c) == Div(CountWhere(t, CHOEJONG_BUNYA, c), Cardinality(Keys(t, index)))

\* counts, row totals and shares of a cross-tab of t are those of its real rows
RealRowsIntact(t, index, pivot, row_sums, pct) ==
  /\ Range(pivot.index) = Keys(t, index)
  /\ DOMAIN row_sums = Keys(t, index)
  /\ DOMAIN pct = Keys(t, index)
  /\ \A r \in Keys(t, index) :
        LET rows == WhereEq(t, index, r)
        IN /\ row_sums[r] = Len(rows)
           /\ \A c \in Keys(t, CHOEJONG_BUNYA) :
                 /\ pivot.count[r][c] = CountWhere(rows, CHOEJONG_BUNYA, c)
                 /\ pct[r][c] = Div(100 * CountWhere(rows, CHOEJONG_BUNYA, c), Len(rows))

C11_Tab1AverageRow ==
  Ran("tab1") =>
    \A g \in DOMAIN tab1 :
      LET t == WhereEq(df, JIBANG_UIHOE_GISU, g)
      IN /\ DOMAIN tab1[g].avg_counts = Keys(t, CHOEJONG_BUNYA)
         /\ \A c \in Keys(t, CHOEJONG_BUNYA) :
               tab1[g].avg_counts[c] = RealRowMean(t, GWANGYEOK, c)
         /\ RealRowsIntact(t, GWANGYEOK, tab1[g].pivot, tab1[g].row_sums, tab1[g].pivot_pct)

C11_Tab3RealRowsIntact ==
  Ran("tab3") =>
    \A p \in DOMAIN tab3.by_gwangyeok :
      LET t == WhereEq(df, GWANGYEOK, p)
          x == tab3.by_gwangyeok[p]
      IN RealRowsIntact(t, GICHO, x.pivot, x.row_sums, x.heatmap_pct)

\* C11 as stated: every appended average row holds, in each column of its
\* cross-tab, the arithmetic mean of the counts over the real rows of that same
\* cross-tab, and the counts, row totals and percentages of the real rows are
\* those computed without it.
C11_AverageRowOfSameCrossTab ==
  /\ C11_Tab1AverageRow
  /\ C11_Tab3RealRowsIntact
  /\ Ran("tab3") =>
        \A p \in DOMAIN tab3.by_gwangyeok :
          LET t == WhereEq(df, GWANGYEOK, p)
          IN \A c \in Keys(t, CHOEJONG_BUNYA) :
               tab3.pyeonggyun_row[c] = RealRowMean(t, GICHO, c)

NationalSubUnitRows == SelectSeq(df, LAMBDA r : r[GWANGYEOK] # r[GICHO])

\* C11 amended: the average row of a per-term province table is the column
\* mean over the real rows of that table; the average row under a province's
\* municipality table is the column mean over the rows of the national
\* sub-unit table (zero for a field no sub-unit has), whatever the province;
\* in both, the counts, row totals and percentages of the real rows are those
\* computed without the average row.
C11_AverageRows ==
  /\ C11_Tab1AverageRow
  /\ C11_Tab3RealRowsIntact
  /\ Ran("tab3") =>
        /\ DOMAIN tab3.pyeonggyun_row = Keys(df, CHOEJONG_BUNYA)
        /\ \A c \in Keys(df, CHOEJONG_BUNYA) :
              tab3.pyeonggyun_row[c] =
                IF c \in Keys(NationalSubUnitRows, CHOEJONG_BUNYA)
                  THEN RealRowMean(NationalSubUnitRows, GICHO, c)
                  ELSE <<0, 1>>

\* a term with two provinces whose mean is fractional, and a province whose own
\* rows (its top-level row included) average differently from the national row
C11_Witness ==
  /\ pc = "done"
  /\ \E g \in DOMAIN tab1 : \E c \in DOMAIN tab1[g].avg_counts :
        Len(tab1[g].pivot.index) = 2 /\ tab1[g].avg_counts[c] = <<1, 2>>
  /\ \E p \in DOMAIN tab3.by_gwangyeok : \E c \in Range(tab3.by_gwangyeok[p].pivot.columns) :
        /\ Len(tab3.by_gwangyeok[p].pivot.index) = 2
        /\ tab3.pyeonggyun_row[c] = <<2, 1>>
        /\ RealRowMean(WhereEq(df, GWANGYEOK, p), GICHO, c) = <<1, 2>>

(***************************************************************************)
(* Ties in the rankings                                                    *)
(***************************************************************************)
PosIn(rows, x) == CHOOSE k \in DOMAIN rows : rows[k] = x

\* tied rows of the ranking keep the relative order they have in rows
TiesInInputOrder(ranking, rows) ==
  \A i, j \in DOMAIN ranking :
     (i < j /\ ranking[i].row.chong_joryesu = ranking[j].row.chong_joryesu)
        => PosIn(rows, ranking[i].row) < PosIn(rows, ranking[j].row)

\* C12: in each of the three rankings, two entities with equal total count
\* stand in the same relative order as in the sequence handed to the sort, so
\* the ranking is a function of the table.
C12_TiesInInputOrder ==
  Ran("tab6") =>
     /\ TiesInInputOrder(tab6.gicho, gicho_joryesu(df))
     /\ TiesInInputOrder(tab6.gwangyeok, gwangyeok_joryesu(df))
     /\ TiesInInputOrder(tab6.jeonche, jeonche_joryesu(df))

(***************************************************************************)
(* The memoized raw table                                                  *)
(***************************************************************************)
OTHER_PATH == "data/other.xlsx"

\* every entry of the cache is still there, unchanged, after the step
EntriesKept == \A k \in DOMAIN cache : k \in DOMAIN cache' /\ cache'[k] = cache[k]

\* a run that gets past the load starts from the table stored under its key
RunStartsFromEntry ==
  (pc = "load_excel" /\ pc' = "required_cols") =>
     /\ DATA_PATH \in DOMAIN cache'
     /\ df' = cache'[DATA_PATH].rows
     /\ columns' = cache'[DATA_PATH].columns

\* a load under another key adds an entry and leaves the others as they are
OtherKeyAddsEntry ==
  source.exists =>
    LET after == load_excel(cache, OTHER_PATH, source).cache
    IN /\ OTHER_PATH \in DOMAIN after
       /\ \A k \in DOMAIN cache : k # OTHER_PATH => after[k] = cache[k]

\* C13: over any sequence of runs an entry of the cache, once written, is
\* never changed (not by the normalization steps of a run, not by a load under
\* another key, not by a new spreadsheet on disk), and every run that loads
\* under the same key starts from the table first stored.
C13_CacheWrittenOnce == [][EntriesKept /\ RunStartsFromEntry /\ OtherKeyAddsEntry]_vars

\* a later run, the spreadsheet on disk no longer the one stored, whose
\* normalization dropped a row of the stored table
C13_Witness ==
  /\ pc = "summary"
  /\ DATA_PATH \in DOMAIN cache
  /\ source.exists
  /\ source.rows # cache[DATA_PATH].rows
  /\ Len(cache[DATA_PATH].rows) = 2
  /\ Len(df) = 1
  /\ df[1][JIBANG_UIHOE_GISU] = GI_2

(***************************************************************************)
(* Rows of the sub-unit groupings                                          *)
(***************************************************************************)
\* the (province, municipality) pairs whose records a row labelled r collects
\* when the rows are keyed by the municipality label
PairsLabelled(r) == {e \in SubUnits : e[2] = r}

\* the pairs a row keyed by the full name collects
PairsNamed(r) == {e \in SubUnits : e[1] \o <<" ">> \o e[2] = r}

\* C14: in the national sub-unit table, the concentration table and the
\* sub-unit and combined rankings, every row collects the records of exactly
\* one (province, municipality) pair, so each has as many rows as there are
\* distinct pairs in its scope.
C14_OneRowPerPair ==
  /\ Ran("tab3") =>
        /\ Len(tab3.jeonguk.pivot.index) = Cardinality(SubUnits)
        /\ \A r \in Range(tab3.jeonguk.pivot.index) : Cardinality(PairsLabelled(r)) = 1
  /\ Ran("tab5") =>
        /\ Len(tab5.jipjungdo_df) = Cardinality(SubUnits)
        /\ \A r \in Range(tab5.pivot.index) : Cardinality(PairsNamed(r)) = 1
  /\ Ran("tab6") =>
        /\ Len(tab6.gicho) = Cardinality(SubUnits)
        /\ {<<x.row.gwangyeok, x.row.gicho>> : x \in Range(tab6.gicho)} = SubUnits
        /\ Len(tab6.jeonche) = Cardinality(AllEntities)
        /\ {<<x.row.gwangyeok, x.row.gicho>> : x \in Range(tab6.jeonche)} = AllEntities

====
